---- MODULE Spec2Model ----
(***************************************************************************)
(* Model of the joke bot of src/bot.py: the JokeState session state, the   *)
(* reduce_jokes reducer, the nine node functions, the two routers and the  *)
(* graph wired by build_joke_graph, run by graph.invoke under a recursion  *)
(* limit.  One action is one superstep of the graph: the node function,    *)
(* the merge of its partial update (reduce_jokes for the jokes field,      *)
(* replacement for the others) and the edge or router that picks the next  *)
(* node.                                                                   *)
(*                                                                         *)
(* The environment is nondeterministic: the text typed at every input(),   *)
(* the text returned by the writer LLM call or its failure, the text       *)
(* returned by the critic LLM call or its failure.  OPENAI_API_KEY is      *)
(* fixed for a session.  prompts.yaml is taken to be present and to hold   *)
(* both templates (PromptBuilder raises otherwise), and pyjokes.get_joke   *)
(* is taken to succeed.                                                    *)
(***************************************************************************)
EXTENDS Integers, Sequences, FiniteSets, TLC

\* ---------------------------------------------------------------- bounds
\* Menu selections a session with a free user makes; the last one allowed is
\* forced to "q".
MaxChoices == 3
\* The per-cycle observation counters saturate here.
CountCap == 7
\* Longest history / batch given to reduce_jokes in SpecReduce.
MaxLen == 2
\* Menu selections the user of SpecLong has ready to type.
LongLen == 50

\* ------------------------------------------------------ program constants
\* route_critique: retry_count >= 5
MaxRetries == 5
\* main: graph.invoke(JokeState(), config={"recursion_limit": 100})
RecursionLimit == 100

\* Optional[...] = None
None == "<None>"
\* Joke.rating: Optional[int] = None, kept apart from every int a user can type
NoRating == -1

RESET_HISTORY == "RESET_HISTORY"

\* --------------------------------------------------------- the environment
\* response.content.strip() of the writer call: an ordinary joke, or a text
\* that happens to equal the reset sentinel.
WriterTexts == {"Joke attempt", RESET_HISTORY}
\* get_joke(language="en", category="neutral")
get_joke == "pyjoke"
\* response.content.strip() of the critic call
CriticResponses == {"APPROVE", "REJECT Too boring", "REJECT"}
\* what is typed at the prompts
MenuInputs == {"n", "c", "l", "r", "q"}
RatingInputs == {"", "abc", "0", "5", "6"}
IndexInputs == {"x", "-1", "0", "1", "2", "3", "4"}

categories == <<"neutral", "chuck", "all">>
languages == <<"en", "de", "es", "am">>

Nodes == {"show_menu", "writer_node", "critic_node", "deliver_joke", "rate_joke",
          "update_category", "update_language", "reset_jokes", "exit_bot"}
END == "__end__"
GraphRecursionError == "GraphRecursionError"

VARIABLES
    \* JokeState
    jokes, jokes_choice, category, language, quit,
    current_joke, critique, approval_status, retry_count,
    \* the run of the graph: next node (or END / the error), supersteps done
    node, steps,
    \* os.getenv("OPENAI_API_KEY") is set
    api_key,
    \* the user: the menu selections that will be typed (<<>>: any, up to
    \* MaxChoices of them) and the ones typed so far
    plan, choices,
    \* observation of the latest refinement cycle, cleared when the user makes
    \* the next selection other than "q": the writer_node runs, the
    \* critic_node runs, the critic LLM calls, the rejections they returned,
    \* whether a writer LLM call failed, whether a critic LLM call approved,
    \* whether a critic LLM call failed, the feedback put in the last writer
    \* prompt and the last text writer_node stored
    writerCalls, criticRuns, critiqueCalls, rejects, genFailed, critApproved, critRaised,
    feedback, lastOut,
    \* the text typed at the prompt of the node that has just run (rate_joke,
    \* update_category, update_language), None after any other node
    lastInput,
    \* SpecReduce: the arguments and the result of one reduce_jokes call
    left, right, merged, mergeDone,
    \* SpecRoute: the branch key route_choice returned, None before the call
    routeKey

state == <<jokes, jokes_choice, category, language, quit,
           current_joke, critique, approval_status, retry_count>>
run == <<node, steps, api_key>>
cycle == <<writerCalls, criticRuns, critiqueCalls, rejects, genFailed, critApproved,
           critRaised, feedback, lastOut>>
reduceVars == <<left, right, merged, mergeDone, routeKey>>
vars == <<state, run, plan, choices, cycle, lastInput, reduceVars>>

\* ------------------------------------------------------------ pure helpers
Min(a, b) == IF a < b THEN a ELSE b
Bump(n) == Min(n + 1, CountCap)

Joke(text, cat, rating) == [text |-> text, category |-> cat, rating |-> rating]

\* A mutated reducer: only the first entry of the batch is inspected.
reduce_jokes_first_only(l, r) ==
    IF Len(r) > 0 /\ r[1].text = RESET_HISTORY THEN <<>> ELSE l \o r

\* A mutated reducer: the batch is put in front of the history.
reduce_jokes_prepend(l, r) ==
    IF \E i \in 1..Len(r) : r[i].text = RESET_HISTORY THEN <<>> ELSE r \o l

\* reduce_jokes: the loop over right returns [] at the first sentinel
RECURSIVE scan_reset(_, _)
scan_reset(r, i) ==
    IF i > Len(r) THEN FALSE
    ELSE IF r[i].text = RESET_HISTORY THEN TRUE
    ELSE scan_reset(r, i + 1)

\* A mutated reducer: the batch is appended without looking for the sentinel.
reduce_jokes_no_reset(l, r) == l \o r

reduce_jokes(l, r) ==
    IF scan_reset(r, 1) THEN <<>> ELSE l \o r

\* int(s) of the texts a user types here: raises ValueError or gives the value
IsInt(s) == s \in {"-1", "0", "1", "2", "3", "4", "5", "6"}
IntOf(s) ==
    CASE s = "-1" -> -1 [] s = "0" -> 0 [] s = "1" -> 1 [] s = "2" -> 2
      [] s = "3" -> 3 [] s = "4" -> 4 [] s = "5" -> 5 [] s = "6" -> 6

\* critic_node: result.startswith("APPROVE")
startswith_APPROVE(result) == result \in {"APPROVE"}
\* critic_node: result.replace("REJECT", "").strip()
strip_REJECT(result) ==
    CASE result = "REJECT Too boring" -> "Too boring"
      [] result = "REJECT" -> ""
      [] OTHER -> result

\* rate_joke: the rating kept for what was typed
rating_of(user_input) ==
    IF user_input = "" THEN NoRating
    ELSE IF ~IsInt(user_input) THEN NoRating
    ELSE IF 1 <= IntOf(user_input) /\ IntOf(user_input) <= 5 THEN IntOf(user_input)
    ELSE NoRating

\* A mutated route_choice: an unmatched choice goes back to the menu.
route_choice_default_menu(choice) ==
    CASE choice = "n" -> "writer_node"
      [] choice = "c" -> "update_category"
      [] choice = "l" -> "update_language"
      [] choice = "r" -> "reset_jokes"
      [] choice = "q" -> "exit_bot"
      [] OTHER -> "show_menu"

route_choice(choice) ==
    CASE choice = "n" -> "writer_node"
      [] choice = "c" -> "update_category"
      [] choice = "l" -> "update_language"
      [] choice = "r" -> "reset_jokes"
      [] choice = "q" -> "exit_bot"
      [] OTHER -> "exit_bot"

\* A mutated route_critique: the bound is compared with > instead of >=.
route_critique_off_by_one(status, retries) ==
    IF status = "APPROVE" THEN "deliver_joke"
    ELSE IF retries > MaxRetries THEN "deliver_joke"
    ELSE "writer_node"

route_critique(status, retries) ==
    IF status = "APPROVE" THEN "deliver_joke"
    ELSE IF retries >= MaxRetries THEN "deliver_joke"
    ELSE "writer_node"

\* build_joke_graph: the branch maps of the two conditional edges
menu_branches ==
    [writer_node |-> "writer_node", update_category |-> "update_category",
     update_language |-> "update_language", reset_jokes |-> "reset_jokes",
     exit_bot |-> "exit_bot"]
critique_branches ==
    [deliver_joke |-> "deliver_joke", writer_node |-> "writer_node"]

\* ------------------------------------------------------------------- Init
InitState ==
    /\ jokes = <<>>
    /\ jokes_choice = "n"
    /\ category = "neutral"
    /\ language = "en"
    /\ quit = FALSE
    /\ current_joke = None
    /\ critique = None
    /\ approval_status = "PENDING"
    /\ retry_count = 0

InitCycle ==
    /\ choices = <<>>
    /\ writerCalls = 0
    /\ criticRuns = 0
    /\ critiqueCalls = 0
    /\ rejects = 0
    /\ genFailed = FALSE
    /\ critApproved = FALSE
    /\ critRaised = FALSE
    /\ feedback = <<>>
    /\ lastOut = None
    /\ lastInput = None

InitRun ==
    /\ InitState
    /\ InitCycle
    /\ node = "show_menu"
    /\ steps = 0
    /\ api_key \in BOOLEAN
    /\ left = <<>> /\ right = <<>> /\ merged = <<>> /\ mergeDone = FALSE
    /\ routeKey = None

\* A session whose user may type anything.
Init == InitRun /\ plan = <<>>

\* The session of scenario D: the user types n, r, n, q.
ScenarioD == <<"n", "r", "n", "q">>
InitD == InitRun /\ plan = ScenarioD

\* A long session without the key (every refinement cycle ends after one
\* writer_node and one critic_node): one joke, then the category and the
\* language changed in turn, and q as the last selection.
LongPlan ==
    [i \in 1..LongLen |->
        IF i = 1 THEN "n"
        ELSE IF i = LongLen THEN "q"
        ELSE IF i % 2 = 0 THEN "c" ELSE "l"]
InitLong == InitRun /\ ~api_key /\ plan = LongPlan

\* The states route_choice is called on in SpecRoute: any jokes_choice, also
\* values the menu never stores, with any settings and refinement fields.
RouteChoices == MenuInputs \cup {"", "x", "N"}
InitRoute ==
    /\ jokes = <<>>
    /\ jokes_choice \in RouteChoices
    /\ category \in {categories[i] : i \in 1..Len(categories)}
    /\ language \in {languages[i] : i \in 1..Len(languages)}
    /\ quit = FALSE
    /\ current_joke = None
    /\ critique = None
    /\ approval_status = "PENDING"
    /\ retry_count = 0
    /\ InitCycle
    /\ node = "show_menu"
    /\ steps = 0
    /\ api_key \in BOOLEAN
    /\ plan = <<>>
    /\ left = <<>> /\ right = <<>> /\ merged = <<>> /\ mergeDone = FALSE
    /\ routeKey = None

\* The histories and batches one reduce_jokes call is given in SpecReduce.
ReduceJokes ==
    {Joke(t, c, NoRating) : t \in {"Joke attempt", RESET_HISTORY}, c \in {"neutral", "chuck"}}
SeqsUpTo(S, n) == UNION {[1..k -> S] : k \in 0..n}

InitReduce ==
    /\ InitState
    /\ InitCycle
    /\ node = END
    /\ steps = 0
    /\ api_key = FALSE
    /\ plan = <<>>
    /\ left \in SeqsUpTo(ReduceJokes, MaxLen)
    /\ right \in SeqsUpTo(ReduceJokes, MaxLen)
    /\ merged = <<>>
    /\ mergeDone = FALSE
    /\ routeKey = None

\* One superstep is allowed while the recursion limit is not used up.
Tick ==
    /\ steps < RecursionLimit
    /\ steps' = steps + 1
    /\ UNCHANGED <<api_key, plan, reduceVars>>

\* The merge of a node's partial update: the jokes field goes through its
\* reducer, every other field present replaces the old value, absent fields stay.
Field(update, name, old) == IF name \in DOMAIN update THEN update[name] ELSE old

Merge(update) ==
    /\ jokes' = IF "jokes" \in DOMAIN update THEN reduce_jokes(jokes, update.jokes) ELSE jokes
    /\ jokes_choice' = Field(update, "jokes_choice", jokes_choice)
    /\ category' = Field(update, "category", category)
    /\ language' = Field(update, "language", language)
    /\ quit' = Field(update, "quit", quit)
    /\ current_joke' = Field(update, "current_joke", current_joke)
    /\ critique' = Field(update, "critique", critique)
    /\ approval_status' = Field(update, "approval_status", approval_status)
    /\ retry_count' = Field(update, "retry_count", retry_count)

NoUpdate == [f \in {} |-> None]
Raise == "<raise>"

\* ------------------------------------------------- node functions (updates)
\* writer_node; outcome is the text of the LLM call, or Raise when it fails
fallback_update ==
    [current_joke |-> get_joke, approval_status |-> "APPROVE", retry_count |-> 0]

writer_update(outcome) ==
    IF ~api_key THEN fallback_update
    ELSE IF outcome = Raise THEN fallback_update
    ELSE [current_joke |-> outcome, retry_count |-> retry_count + 1]

\* the feedback writer_node puts in its prompt: the f-string made of the
\* critique when state.critique is truthy, the empty text (<<>>) otherwise
writer_feedback ==
    IF critique # None /\ critique # ""
    THEN <<"Previous attempt rejected. Critique: ", critique>>
    ELSE <<>>

\* A mutated critic: a failing critic call rejects instead of approving.
critic_update_fail_closed(outcome) ==
    IF ~api_key THEN [approval_status |-> "APPROVE"]
    ELSE IF outcome = Raise THEN [approval_status |-> "REJECT"]
    ELSE IF startswith_APPROVE(outcome) THEN [approval_status |-> "APPROVE", critique |-> None]
    ELSE [approval_status |-> "REJECT", critique |-> strip_REJECT(outcome)]

\* critic_node; outcome is the text of the LLM call, or Raise when it fails
critic_update(outcome) ==
    IF ~api_key THEN [approval_status |-> "APPROVE"]
    ELSE IF outcome = Raise THEN [approval_status |-> "APPROVE"]
    ELSE IF startswith_APPROVE(outcome) THEN [approval_status |-> "APPROVE", critique |-> None]
    ELSE [approval_status |-> "REJECT", critique |-> strip_REJECT(outcome)]

\* A mutated rate_joke: the retry counter is not reset.
rate_update_keeps_retry(user_input) ==
    [jokes |-> <<Joke(current_joke, category, rating_of(user_input))>>,
     current_joke |-> None, critique |-> None, approval_status |-> "PENDING"]

\* A mutated rate_joke: the critique is not cleared.
rate_update_keeps_critique(user_input) ==
    [jokes |-> <<Joke(current_joke, category, rating_of(user_input))>>,
     current_joke |-> None, approval_status |-> "PENDING", retry_count |-> 0]

\* A mutated rate_joke: the draft is not cleared.
rate_update_keeps_draft(user_input) ==
    [jokes |-> <<Joke(current_joke, category, rating_of(user_input))>>,
     critique |-> None, approval_status |-> "PENDING", retry_count |-> 0]

rate_update(user_input) ==
    [jokes |-> <<Joke(current_joke, category, rating_of(user_input))>>,
     current_joke |-> None, critique |-> None, approval_status |-> "PENDING",
     retry_count |-> 0]

\* A mutated update_category: the index is only checked against the length,
\* so that -1 selects the last category as Python's categories[-1] does.
category_update_no_lower_bound(user_input) ==
    IF ~IsInt(user_input) THEN NoUpdate
    ELSE IF IntOf(user_input) < Len(categories)
    THEN [category |-> categories[(IntOf(user_input) % Len(categories)) + 1],
          current_joke |-> None, critique |-> None, approval_status |-> "PENDING",
          retry_count |-> 0]
    ELSE NoUpdate

category_update(user_input) ==
    IF ~IsInt(user_input) THEN NoUpdate
    ELSE IF 0 <= IntOf(user_input) /\ IntOf(user_input) < Len(categories)
    THEN [category |-> categories[IntOf(user_input) + 1], current_joke |-> None,
          critique |-> None, approval_status |-> "PENDING", retry_count |-> 0]
    ELSE NoUpdate

language_update(user_input) ==
    IF ~IsInt(user_input) THEN NoUpdate
    ELSE IF 0 <= IntOf(user_input) /\ IntOf(user_input) < Len(languages)
    THEN [language |-> languages[IntOf(user_input) + 1]]
    ELSE NoUpdate

reset_update ==
    [jokes |-> <<Joke(RESET_HISTORY, "neutral", NoRating)>>, current_joke |-> None,
     critique |-> None, approval_status |-> "PENDING", retry_count |-> 0]

\* A mutated exit_bot: quit is not set.
exit_update_noop == NoUpdate

exit_update == [quit |-> TRUE]

\* ---------------------------------------------------------------- actions
\* What the user types at the menu (an invalid text is asked again by the
\* loop of show_menu, so the node ends with one of n, c, l, r, q).
typed(user_input) ==
    IF plan = <<>>
    THEN Len(choices) + 1 < MaxChoices \/ user_input = "q"
    ELSE Len(choices) < Len(plan) /\ user_input = plan[Len(choices) + 1]

show_menu ==
    /\ node = "show_menu"
    /\ Tick
    /\ \E user_input \in MenuInputs :
        /\ typed(user_input)
        /\ Merge([jokes_choice |-> user_input])
        /\ choices' = Append(choices, user_input)
        /\ IF user_input # "q"
           THEN /\ writerCalls' = 0 /\ criticRuns' = 0 /\ critiqueCalls' = 0 /\ rejects' = 0
                /\ genFailed' = FALSE /\ critApproved' = FALSE /\ critRaised' = FALSE
                /\ feedback' = <<>> /\ lastOut' = None
           ELSE UNCHANGED cycle
    /\ lastInput' = None
    /\ node' = menu_branches[route_choice(jokes_choice')]

writer_node ==
    /\ node = "writer_node"
    /\ Tick
    /\ \E outcome \in WriterTexts \cup {Raise} :
        /\ Merge(writer_update(outcome))
        /\ genFailed' = (genFailed \/ (api_key /\ outcome = Raise))
    /\ writerCalls' = Bump(writerCalls)
    /\ feedback' = IF api_key THEN writer_feedback ELSE feedback
    /\ lastOut' = current_joke'
    /\ lastInput' = None
    /\ node' = "critic_node"
    /\ UNCHANGED <<choices, criticRuns, critiqueCalls, rejects, critApproved, critRaised>>

critic_node ==
    /\ node = "critic_node"
    /\ Tick
    /\ \E outcome \in CriticResponses \cup {Raise} :
        /\ Merge(critic_update(outcome))
        /\ critRaised' = (critRaised \/ (api_key /\ outcome = Raise))
        /\ critApproved' = (critApproved \/ (api_key /\ outcome # Raise /\ startswith_APPROVE(outcome)))
        /\ rejects' = IF api_key /\ outcome # Raise /\ ~startswith_APPROVE(outcome)
                      THEN Bump(rejects) ELSE rejects
    /\ criticRuns' = Bump(criticRuns)
    /\ critiqueCalls' = IF api_key THEN Bump(critiqueCalls) ELSE critiqueCalls
    /\ lastInput' = None
    /\ node' = critique_branches[route_critique(approval_status', retry_count')]
    /\ UNCHANGED <<choices, writerCalls, genFailed, feedback, lastOut>>

deliver_joke ==
    /\ node = "deliver_joke"
    /\ Tick
    /\ Merge(NoUpdate)
    /\ lastInput' = None
    /\ node' = "rate_joke"
    /\ UNCHANGED <<choices, cycle>>

rate_joke ==
    /\ node = "rate_joke"
    /\ Tick
    /\ \E user_input \in RatingInputs :
        /\ Merge(rate_update(user_input))
        /\ lastInput' = user_input
    /\ node' = "show_menu"
    /\ UNCHANGED <<choices, cycle>>

update_category ==
    /\ node = "update_category"
    /\ Tick
    /\ \E user_input \in IndexInputs :
        /\ Merge(category_update(user_input))
        /\ lastInput' = user_input
    /\ node' = "show_menu"
    /\ UNCHANGED <<choices, cycle>>

update_language ==
    /\ node = "update_language"
    /\ Tick
    /\ \E user_input \in IndexInputs :
        /\ Merge(language_update(user_input))
        /\ lastInput' = user_input
    /\ node' = "show_menu"
    /\ UNCHANGED <<choices, cycle>>

reset_jokes ==
    /\ node = "reset_jokes"
    /\ Tick
    /\ Merge(reset_update)
    /\ lastInput' = None
    /\ node' = "show_menu"
    /\ UNCHANGED <<choices, cycle>>

exit_bot ==
    /\ node = "exit_bot"
    /\ Tick
    /\ Merge(exit_update)
    /\ lastInput' = None
    /\ node' = END
    /\ UNCHANGED <<choices, cycle>>

\* graph.invoke raises when the limit is used up before END is reached.
recursion_error ==
    /\ node \in Nodes
    /\ steps >= RecursionLimit
    /\ node' = GraphRecursionError
    /\ UNCHANGED <<state, steps, api_key, plan, choices, cycle, lastInput, reduceVars>>

Next ==
    \/ show_menu
    \/ writer_node
    \/ critic_node
    \/ deliver_joke
    \/ rate_joke
    \/ update_category
    \/ update_language
    \/ reset_jokes
    \/ exit_bot
    \/ recursion_error

Spec == Init /\ [][Next]_vars

\* Scenario D leaves the category and the language alone.
NextD ==
    \/ show_menu
    \/ writer_node
    \/ critic_node
    \/ deliver_joke
    \/ rate_joke
    \/ reset_jokes
    \/ exit_bot
    \/ recursion_error

SpecD == InitD /\ [][NextD]_vars

\* One call of the reducer on a drawn history and batch.
reduce_step ==
    /\ ~mergeDone
    /\ merged' = reduce_jokes(left, right)
    /\ mergeDone' = TRUE
    /\ UNCHANGED <<state, run, plan, choices, cycle, lastInput, left, right, routeKey>>

SpecReduce == InitReduce /\ [][reduce_step]_vars

\* The long session selects neither r nor q before the limit is used up.
NextLong ==
    \/ show_menu
    \/ writer_node
    \/ critic_node
    \/ deliver_joke
    \/ rate_joke
    \/ update_category
    \/ update_language
    \/ recursion_error

SpecLong == InitLong /\ [][NextLong]_vars

\* Raised by the conditional edge when the router's key is not in its map.
UnknownBranch == "UnknownBranch"

\* One call of route_choice after show_menu, and the lookup of its key in the
\* branch map of the menu's conditional edge.
route_step ==
    /\ node = "show_menu"
    /\ routeKey = None
    /\ routeKey' = route_choice(jokes_choice)
    /\ node' = IF routeKey' \in DOMAIN menu_branches
               THEN menu_branches[routeKey'] ELSE UnknownBranch
    /\ UNCHANGED <<state, steps, api_key, plan, choices, cycle, lastInput,
                   left, right, merged, mergeDone>>

SpecRoute == InitRoute /\ [][route_step]_vars

\* ================================================================ claims
\* Every critic LLM call of the latest cycle returned a rejection.
OnlyRejections == ~critApproved /\ ~critRaised
\* The refinement fields as JokeState() holds them.
LoopStateCleared ==
    /\ current_joke = None
    /\ critique = None
    /\ approval_status = "PENDING"
    /\ retry_count = 0

\* C1 - Retry bound.  While every critic call of a cycle has returned a
\* rejection, writer_node has run at most MaxRetries + 1 = 6 times in that
\* cycle, whether the writer calls succeed or fail.
C1_RetryBound ==
    (api_key /\ OnlyRejections) => writerCalls <= MaxRetries + 1

\* C2 - Scenarios A, B, C.  With the key set, no writer call failing and the
\* critic rejecting the first k drafts (never raising), the session n, q runs
\* writer_node exactly min(k + 1, MaxRetries) times, raises no error, and ends
\* with a history of exactly one joke, whose text is the last writer output.
C2_RetryScenario ==
    (api_key /\ ~genFailed /\ ~critRaised) =>
        /\ choices \in {<<"n">>, <<"n", "q">>} => node # GraphRecursionError
        /\ (choices = <<"n">> /\ node = "deliver_joke") =>
               writerCalls = Min(rejects + 1, MaxRetries)
        /\ (choices = <<"n", "q">> /\ node = END) =>
               /\ writerCalls = Min(rejects + 1, MaxRetries)
               /\ Len(jokes) = 1
               /\ jokes[1].text = lastOut

\* C3 - Fail-open.  In a cycle whose critic calls have all raised, writer_node
\* and critic_node have each run exactly once, the critic has left
\* approval_status at APPROVE and the router has gone to deliver_joke, never
\* back to writer_node; the run only ends in an error when the recursion
\* limit is used up.
C3_FailOpen ==
    (critRaised /\ ~critApproved /\ rejects = 0) =>
        /\ writerCalls = 1
        /\ criticRuns = 1
        /\ node \notin {"writer_node", "critic_node"}
        /\ node = "deliver_joke" => approval_status = "APPROVE"
        /\ node = GraphRecursionError => steps = RecursionLimit

\* C3 witness: a cycle whose only critic call raised has been delivered and rated.
C3_Witness ==
    /\ critRaised /\ ~critApproved /\ rejects = 0
    /\ node = "show_menu"
    /\ Len(jokes) = 1
    /\ jokes[1].text = "Joke attempt"

\* C4 - Cycle isolation.  Right after every rate_joke step current_joke and
\* critique are None, approval_status is PENDING and retry_count is 0.
C4_CycleIsolation ==
    [][(node = "rate_joke" /\ node' = "show_menu") => LoopStateCleared']_vars

\* C4 witness: rate_joke has just ended a cycle that took six writer runs or
\* more, one of them with a failed writer call, and five rejections or more.
C4_Witness ==
    /\ node = "show_menu"
    /\ choices = <<"n">>
    /\ writerCalls >= MaxRetries + 1
    /\ rejects >= MaxRetries
    /\ genFailed
    /\ Len(jokes) = 1
    /\ LoopStateCleared

\* C5 - History growth.  Every rate_joke step makes the history exactly one
\* longer, whatever text the writer produced, and no step other than
\* reset_jokes makes it shorter.
C5_HistoryGrows ==
    [][/\ (node = "rate_joke" /\ node' = "show_menu") => Len(jokes') = Len(jokes) + 1
       /\ node # "reset_jokes" => Len(jokes') >= Len(jokes)]_vars

\* C6 - Writer fallback bypasses the critic.  Once a writer call has failed in
\* a cycle (key set), the offline joke is the draft, approval_status is APPROVE
\* and retry_count is 0 up to rate_joke, the critic LLM is not called for that
\* draft, approval_status is not turned to REJECT and writer_node does not run
\* again.
C6_FallbackBypassesCritic ==
    (api_key /\ genFailed) =>
        /\ critiqueCalls < writerCalls
        /\ approval_status # "REJECT"
        /\ node # "writer_node"
        /\ node \in {"critic_node", "deliver_joke", "rate_joke"} =>
               /\ current_joke = get_joke
               /\ approval_status = "APPROVE"
               /\ retry_count = 0

\* C7 - No credential.  Without the key critic_node never runs: a cycle is one
\* writer_node, then deliver_joke, then rate_joke, with the offline joke as the
\* draft.
C7_NoKeyShortCircuit ==
    ~api_key =>
        /\ criticRuns = 0
        /\ critiqueCalls = 0
        /\ node \in {"deliver_joke", "rate_joke"} =>
               (writerCalls = 1 /\ current_joke = get_joke)

\* The batch holds the reset sentinel.
HasReset(batch) == \E i \in 1..Len(batch) : batch[i].text = RESET_HISTORY

\* C8 - Reducer reset law.  Merging any history with a batch that holds the
\* sentinel at any position gives the empty sequence.
C8_ResetLaw ==
    (mergeDone /\ HasReset(right)) => merged = <<>>

\* C8 witness: a two-joke history merged with a batch whose second entry only
\* is the sentinel.
C8_Witness ==
    /\ mergeDone
    /\ Len(left) = 2
    /\ Len(right) = 2
    /\ right[1].text # RESET_HISTORY
    /\ right[2].text = RESET_HISTORY
    /\ merged = <<>>

\* C9 - Reducer append law.  Merging a history H with a batch [j] without the
\* sentinel gives H followed by j: H's entries in place, j last, one longer.
C9_AppendLaw ==
    (mergeDone /\ Len(right) = 1 /\ ~HasReset(right)) =>
        /\ Len(merged) = Len(left) + 1
        /\ \A i \in 1..Len(left) : merged[i] = left[i]
        /\ merged[Len(merged)] = right[1]

\* C9 witness: a history of two different jokes got a third, different one.
C9_Witness ==
    /\ mergeDone
    /\ Len(left) = 2
    /\ left[1] # left[2]
    /\ Len(right) = 1
    /\ ~HasReset(right)
    /\ right[1] # left[1]
    /\ right[1] # left[2]
    /\ Len(merged) = 3

\* C10 - Scenario D.  For the session n, r, n, q the history has one joke
\* after the first cycle, none from the reset step until the second cycle's
\* rate_joke, and one at the end; the reset step leaves the refinement fields
\* cleared.
C10_ScenarioD ==
    /\ (choices = <<"n">> /\ node = "show_menu") => Len(jokes) = 1
    /\ (choices = <<"n", "r">> /\ node = "show_menu") =>
           (Len(jokes) = 0 /\ LoopStateCleared)
    /\ (choices = <<"n", "r", "n">> /\ node \in {"writer_node", "critic_node",
                                                "deliver_joke", "rate_joke"}) =>
           Len(jokes) = 0
    /\ (choices = <<"n", "r", "n">> /\ node = "show_menu") => Len(jokes) = 1
    /\ (choices = ScenarioD /\ node \in {"exit_bot", END}) => Len(jokes) = 1

\* C11 - Retry counter range.  retry_count is always between 0 and
\* MaxRetries = 5, and writer_node is never the next node when retry_count is
\* already 5.
C11_RetryRange ==
    /\ retry_count \in 0..MaxRetries
    /\ node = "writer_node" => retry_count < MaxRetries

\* C11 witness: the fifth draft has been rejected and is delivered anyway.
C11_Witness ==
    /\ retry_count = MaxRetries
    /\ approval_status = "REJECT"
    /\ node = "deliver_joke"

\* A refinement cycle is in flight: control is between writer_node and the
\* end of rate_joke.
InFlight == node \in {"critic_node", "deliver_joke", "rate_joke"}

\* C12 - Draft and status.  While the graph runs (or has ended at END),
\* current_joke is not None whenever approval_status is APPROVE or REJECT, and
\* it is None whenever approval_status is PENDING and no cycle is in flight.
C12_DraftMatchesStatus ==
    node \in Nodes \cup {END} =>
        /\ approval_status \in {"APPROVE", "REJECT"} => current_joke # None
        /\ (approval_status = "PENDING" /\ ~InFlight) => current_joke = None

\* C12 witness: a cycle with a rejected draft is over, and the menu is shown
\* with a PENDING status and no draft.
C12_Witness ==
    /\ node = "show_menu"
    /\ rejects >= 1
    /\ Len(jokes) = 1
    /\ approval_status = "PENDING"
    /\ current_joke = None

\* C13 - Quit.  quit is TRUE exactly when exit_bot has run, which is when the
\* run has ended at END; exit_bot is only reached with the selection q; no
\* step is taken after END.
C13_QuitOnlyByExit ==
    /\ quit <=> node = END
    /\ node \in {"exit_bot", END} =>
           /\ jokes_choice = "q"
           /\ choices # <<>>
           /\ choices[Len(choices)] = "q"
    /\ node = END => ~ENABLED Next

\* C13 witness: the run has ended after a joke and q.
C13_Witness ==
    /\ node = END
    /\ quit
    /\ choices = <<"n", "q">>
    /\ Len(jokes) = 1

\* C14 - route_choice.  The key depends on jokes_choice alone: n gives
\* writer_node, c update_category, l update_language, r reset_jokes, q and any
\* other value exit_bot; the key is in the branch map of the menu's edge, so
\* the edge never raises.
C14_RouteChoice ==
    routeKey # None =>
        /\ routeKey = (IF jokes_choice = "n" THEN "writer_node"
                       ELSE IF jokes_choice = "c" THEN "update_category"
                       ELSE IF jokes_choice = "l" THEN "update_language"
                       ELSE IF jokes_choice = "r" THEN "reset_jokes"
                       ELSE "exit_bot")
        /\ routeKey \in DOMAIN menu_branches
        /\ node = routeKey
        /\ node # UnknownBranch

\* C14 witness: a value the menu never stores was routed to exit_bot.
C14_Witness ==
    /\ jokes_choice = "x"
    /\ routeKey = "exit_bot"
    /\ node = "exit_bot"

\* C15 - Step limit.  In a session of valid menu selections whose refinement
\* cycles all end (SpecLong: no key, so every cycle is one writer_node and one
\* critic_node), graph.invoke never raises the recursion error.
C15_NoStepLimitError ==
    node # GraphRecursionError

\* Control is outside the refinement loop.
OutsideLoop ==
    node \in {"show_menu", "update_category", "update_language", "reset_jokes",
              "exit_bot", END}

\* C16 - Outside the loop.  Whenever the next node is show_menu,
\* update_category, update_language, reset_jokes or exit_bot, or the run has
\* ended, current_joke and critique are None, approval_status is PENDING and
\* retry_count is 0.
C16_ClearedOutsideLoop ==
    OutsideLoop => LoopStateCleared

\* C16 witness: the menu is shown again after a joke and a change of category.
C16_Witness ==
    /\ node = "show_menu"
    /\ choices = <<"n", "c">>
    /\ lastInput = "1"
    /\ category = "chuck"
    /\ Len(jokes) = 1
    /\ LoopStateCleared

\* The index texts that select an entry of the list.
ValidCategoryInputs == {"0", "1", "2"}
ValidLanguageInputs == {"0", "1", "2", "3"}
CategorySet == {"neutral", "chuck", "all"}
LanguageSet == {"en", "de", "es", "am"}

\* C17 - Settings.  An update_category or update_language step goes back to
\* the menu; with an index out of range or a text that is no number it leaves
\* the whole JokeState as it was, with a valid index it stores the entry
\* selected.  No other step changes category or language, which stay in their
\* lists.
C17_InvalidIndexKeepsState ==
    [][/\ (node = "update_category" /\ node' # GraphRecursionError) =>
              /\ node' = "show_menu"
              /\ lastInput' \notin ValidCategoryInputs => state' = state
              /\ lastInput' \in ValidCategoryInputs =>
                     category' = categories[IntOf(lastInput') + 1]
       /\ (node = "update_language" /\ node' # GraphRecursionError) =>
              /\ node' = "show_menu"
              /\ lastInput' \notin ValidLanguageInputs => state' = state
              /\ lastInput' \in ValidLanguageInputs =>
                     language' = languages[IntOf(lastInput') + 1]
       /\ category' # category =>
              (node = "update_category" /\ lastInput' \in ValidCategoryInputs)
       /\ language' # language =>
              (node = "update_language" /\ lastInput' \in ValidLanguageInputs)
       /\ category \in CategorySet /\ category' \in CategorySet
       /\ language \in LanguageSet /\ language' \in LanguageSet]_vars

\* C17 witness: after a joke the index -1 was typed at update_category and
\* the menu is shown with the category as it was.
C17_Witness ==
    /\ node = "show_menu"
    /\ choices = <<"n", "c">>
    /\ lastInput = "-1"
    /\ category = "neutral"
    /\ Len(jokes) = 1

\* The feedback text writer_node makes of a critique.
FeedbackOf(text) == <<"Previous attempt rejected. Critique: ", text>>

\* C18 - Feedback.  With the key set, the first writer_node of a cycle starts
\* with critique None and puts no feedback in its prompt; every later
\* writer_node of the cycle (it follows a rejection) puts in its prompt the
\* feedback made of the critique the critic_node before it stored, whatever
\* the rejection text, the empty one included.
C18_FeedbackIsCritique ==
    api_key =>
        /\ (node = "writer_node" /\ writerCalls = 0) => critique = None
        /\ (node = "critic_node" /\ writerCalls = 1) => feedback = <<>>
        /\ (node = "critic_node" /\ writerCalls > 1) =>
               (critique # None /\ feedback = FeedbackOf(critique))

\* The ratings rate_joke keeps.
RatingTexts == {"1", "2", "3", "4", "5"}
ExpectedRating(text) == IF text \in RatingTexts THEN IntOf(text) ELSE NoRating

\* C19 - Rating.  Every rate_joke step goes back to the menu and appends
\* exactly one joke: its text is the delivered draft, its category the current
\* category, its rating the number typed when that is 1 to 5 and none for a
\* blank, non-numeric or out-of-range text; so every rating in the history is
\* none or 1 to 5.
C19_RateAppendsOne ==
    [][/\ (node = "rate_joke" /\ node' # GraphRecursionError) =>
              /\ node' = "show_menu"
              /\ jokes' = Append(jokes, Joke(current_joke, category,
                                             ExpectedRating(lastInput')))
       /\ \A i \in 1..Len(jokes') :
              jokes'[i].rating = NoRating \/ jokes'[i].rating \in 1..5]_vars

\* C20 - Sentinel never stored.  No entry of the history has the text
\* RESET_HISTORY.
C20_NoSentinelStored ==
    \A i \in 1..Len(jokes) : jokes[i].text # RESET_HISTORY

\* C20 witness: reset_jokes has run on a history of one joke, and the history
\* is empty.
C20_Witness ==
    /\ node = "show_menu"
    /\ choices = <<"n", "r">>
    /\ jokes = <<>>
====
